---------------------------- MODULE Spec2Model ----------------------------
(***************************************************************************)
(* PostgreSQL -> MongoDB reservation migration.                            *)
(*                                                                         *)
(* Two programs are modelled, selected by the variable prog:               *)
(*   "main"       data_migration_postgres_to_mongo.py, function main()     *)
(*   "scriptrans" scriptrans.py, the module-level try/except/finally       *)
(*                                                                         *)
(* PostgreSQL and MongoDB are the environment: whether a connect, a query  *)
(* or a bulk insert succeeds, and how many documents an ordered            *)
(* insert_many commits before it raises, are nondeterministic choices.     *)
(***************************************************************************)
EXTENDS Integers, Sequences, FiniteSets, TLC

VARIABLES
    prog,          \* which of the two programs runs
    source,        \* rows the extraction query yields (tuples of values)
    run,           \* number of the current invocation
    pc,            \* position of the orchestrator in the current run
    pg_conn,       \* "none" (None / unbound), "open", "closed"
    pg_cursor,     \* scriptrans only: "none", "open", "closed"
    mongo_client,  \* "none" (None / unbound), "open", "closed"
    rows,          \* scriptrans: result of fetchall()
    data,          \* main: data; scriptrans: documents
    sink,          \* documents held by the MongoDB collection
    sinkBefore,    \* size of the collection when the current run started
    insertCalls,   \* insert_many calls issued in the current run
    log,           \* logger / print output of the current run
    pending,       \* exception propagating, not yet handled ("none" if none)
    error,         \* stage that raised in the current run ("none" if none)
    exit_code,     \* "running", "0" (normal completion), "1" (uncaught exception)
    history        \* one summary per completed run

vars == <<prog, source, run, pc, pg_conn, pg_cursor, mongo_client, rows, data,
          sink, sinkBefore, insertCalls, log, pending, error, exit_code, history>>

-----------------------------------------------------------------------------
(* Bounds *)

MaxRows == 2

MaxRuns == 2

-----------------------------------------------------------------------------
(* Values a psycopg2 row can hold for the projected columns, tagged by     *)
(* their Python type.                                                      *)

Null == [t |-> "null"]

IntV(n) == [t |-> "int", n |-> n]

BoolV(b) == [t |-> "bool", b |-> b]

TextV(s) == [t |-> "text", s |-> s]

DateV(y, m, d) == [t |-> "date", y |-> y, m |-> m, d |-> d]

DateTimeV(y, m, d, hh, mi, ss, us) ==
    [t |-> "datetime", y |-> y, m |-> m, d |-> d, hh |-> hh, mi |-> mi, ss |-> ss, us |-> us]

(* Column names of cursor.description: a representative part of the query's *)
(* projection, one column per kind of value the projection yields.          *)
colnames ==
    <<"reservation_id", "requested_room_type_code", "arrival_date", "booking_date",
      "cancelled_date", "preview_no_show", "season">>

(* Values each column can take, in the order of colnames. *)
ColumnValues ==
    << {IntV(1)},
       {TextV("DBL")},
       {DateV(2024, 3, 1), DateV(2024, 12, 25)},
       {DateTimeV(2024, 2, 9, 18, 30, 0, 0)},
       {Null, DateTimeV(2024, 3, 2, 9, 5, 7, 1500)},
       {BoolV(FALSE)},
       {Null} >>

RECURSIVE Product(_)
Product(cols) ==
    IF cols = <<>> THEN {<<>>}
    ELSE {<<v>> \o r : v \in Head(cols), r \in Product(Tail(cols))}

Rows == Product(ColumnValues)

SeqsUpTo(S, n) == UNION { [1..k -> S] : k \in 0..n }

(* A document already in the collection before the first run. *)
PreDoc == [reservation_id |-> IntV(0)]

-----------------------------------------------------------------------------
(* Pure functions *)

Min(a, b) == IF a < b THEN a ELSE b

(* "%0<w>d" % n *)
RECURSIVE Pad(_, _)
Pad(n, w) ==
    LET s == ToString(n)
    IN  IF Len(s) >= w THEN s ELSE "0" \o Pad(n, w - 1)

(* date.isoformat(): YYYY-MM-DD *)
DateIso(v) == Pad(v.y, 4) \o "-" \o Pad(v.m, 2) \o "-" \o Pad(v.d, 2)

(* date.isoformat() / datetime.isoformat() of a naive value:               *)
(* YYYY-MM-DDTHH:MM:SS, followed by .ffffff when microsecond is not 0.     *)
isoformat(v) ==
    IF v.t = "date"
    THEN DateIso(v)
    ELSE DateIso(v) \o "T" \o Pad(v.hh, 2) \o ":" \o Pad(v.mi, 2) \o ":" \o Pad(v.ss, 2)
         \o (IF v.us = 0 THEN "" ELSE "." \o Pad(v.us, 6))

(* Mutant: only datetime values are recognised. *)
IsTemporalOnlyDatetime(v) == v.t = "datetime"

(* isinstance(value, (datetime, date)) *)
IsTemporal(v) == v.t \in {"datetime", "date"}

(* dict(zip(colnames, row)): later duplicates of a key win. *)
DictZip(names, row) ==
    LET n == Min(Len(names), Len(row))
    IN  [k \in {names[i] : i \in 1..n} |->
            row[CHOOSE i \in 1..n : names[i] = k /\ \A j \in (i+1)..n : names[j] # k]]

(* The list of records extract_data_from_postgres builds from fetchall(). *)
RecordsOf(rs) == [i \in 1..Len(rs) |-> DictZip(colnames, rs[i])]

(* Body of the inner loop of transform_data for one record. *)
TransformRecord(record) ==
    [key \in DOMAIN record |->
        IF IsTemporal(record[key]) THEN TextV(isoformat(record[key])) ELSE record[key]]

(* Mutant: null values are replaced by the empty string as well. *)
TransformDataNullToText(records) ==
    [i \in 1..Len(records) |->
        [key \in DOMAIN records[i] |->
            IF IsTemporal(records[i][key]) THEN TextV(isoformat(records[i][key]))
            ELSE IF records[i][key] = Null THEN TextV("")
            ELSE records[i][key]]]

transform_data(records) == [i \in 1..Len(records) |-> TransformRecord(records[i])]

(* transform_data interrupted after k records (the records are mutated in place). *)
TransformPrefix(records, k) ==
    [i \in 1..Len(records) |-> IF i <= k THEN TransformRecord(records[i]) ELSE records[i]]

(* Used by a mutant: documents the collection already holds are skipped. *)
InsertManyDedup(coll, docs, k) ==
    LET RECURSIVE Add(_, _)
        Add(c, i) ==
            IF i > k THEN c
            ELSE IF \E j \in 1..Len(c) : c[j] = docs[i] THEN Add(c, i + 1)
            ELSE Add(Append(c, docs[i]), i + 1)
    IN  Add(coll, 1)

(* collection.insert_many(docs), ordered: the first k documents are committed; *)
(* the call returns when k = Len(docs) and raises otherwise.                  *)
InsertMany(coll, docs, k) == coll \o SubSeq(docs, 1, k)

(* Log entries: <<level, message>> or <<level, message, count>>. *)
HasReport(n) == \E i \in 1..Len(log) : Len(log[i]) = 3 /\ log[i][2] = "inserted" /\ log[i][3] = n

Logged(msg) == \E i \in 1..Len(log) : log[i][2] = msg

-----------------------------------------------------------------------------
Init ==
    /\ prog \in {"main", "scriptrans"}
    /\ source \in SeqsUpTo(Rows, MaxRows)
    /\ run = 1
    /\ pc = "init"
    /\ pg_conn = "none"
    /\ pg_cursor = "none"
    /\ mongo_client = "none"
    /\ rows = <<>>
    /\ data = <<>>
    /\ sink \in {<<>>, <<PreDoc>>}
    /\ sinkBefore = Len(sink)
    /\ insertCalls = 0
    /\ log = <<>>
    /\ pending = "none"
    /\ error = "none"
    /\ exit_code = "running"
    /\ history = <<>>


-----------------------------------------------------------------------------
(* Control-flow helpers *)

(* A statement inside the try block raises: control moves to the except clause. *)
Raise(stage, entries) ==
    /\ pc' = "raising"
    /\ pending' = stage
    /\ error' = stage
    /\ log' = log \o entries

-----------------------------------------------------------------------------
(* data_migration_postgres_to_mongo.py *)

get_postgres_connection ==
    /\ prog = "main"
    /\ pc = "init"
    /\ \/ /\ pg_conn' = "open"
          /\ log' = Append(log, <<"INFO", "pg_connected">>)
          /\ pc' = "source_connected"
          /\ UNCHANGED <<pending, error>>
       \/ /\ Raise("source_connect", << <<"ERROR", "pg_connect_error">> >>)
          /\ UNCHANGED pg_conn
    /\ UNCHANGED <<prog, source, run, pg_cursor, mongo_client, rows, data, sink,
                   sinkBefore, insertCalls, exit_code, history>>

(* Mutant: a failing query is logged and the rows read so far are returned. *)
extract_fail_keeps_partial ==
    /\ prog = "main"
    /\ pc = "source_connected"
    /\ \E k \in 1..Len(source) :
          /\ data' = RecordsOf(SubSeq(source, 1, k))
          /\ log' = Append(log, <<"ERROR", "extract_error">>)
          /\ error' = "extract"
          /\ pc' = "extracted"
    /\ UNCHANGED <<prog, source, run, pg_conn, pg_cursor, mongo_client, rows, sink,
                   sinkBefore, insertCalls, pending, exit_code, history>>

(* Mutant: a failing query is logged and tried again. *)
extract_fail_retries ==
    /\ prog = "main"
    /\ pc = "source_connected"
    /\ Len(log) < 3
    /\ log' = Append(log, <<"ERROR", "extract_error">>)
    /\ UNCHANGED <<prog, source, run, pc, pg_conn, pg_cursor, mongo_client, rows, data, sink,
                   sinkBefore, insertCalls, pending, error, exit_code, history>>

(* cursor.execute or cursor.fetchall raises psycopg2.Error: logged, re-raised; *)
(* the local list of extract_data_from_postgres is dropped and main's data is  *)
(* never bound.                                                                *)
extract_data_from_postgres_fail ==
    /\ prog = "main"
    /\ pc = "source_connected"
    /\ Raise("extract", << <<"ERROR", "extract_error">> >>)
    /\ UNCHANGED <<prog, source, run, pg_conn, pg_cursor, mongo_client, rows, data, sink,
                   sinkBefore, insertCalls, exit_code, history>>

extract_data_from_postgres ==
    /\ prog = "main"
    /\ pc = "source_connected"
    /\ data' = RecordsOf(source)
    /\ log' = Append(log, <<"INFO", "extracted", Len(source)>>)
    /\ pc' = "extracted"
    /\ UNCHANGED <<prog, source, run, pg_conn, pg_cursor, mongo_client, rows, sink,
                   sinkBefore, insertCalls, pending, error, exit_code, history>>

(* data = transform_data(data), line 186; the call logs nothing. A failure of *)
(* the runtime inside the loop leaves the first k records converted.          *)
main_transform ==
    /\ prog = "main"
    /\ pc = "extracted"
    /\ \/ /\ data' = transform_data(data)
          /\ pc' = "transformed"
          /\ UNCHANGED <<log, pending, error>>
       \/ /\ \E k \in 0..Len(data) : data' = TransformPrefix(data, k)
          /\ Raise("transform", <<>>)
    /\ UNCHANGED <<prog, source, run, pg_conn, pg_cursor, mongo_client, rows, sink,
                   sinkBefore, insertCalls, exit_code, history>>

get_mongo_client ==
    /\ prog = "main"
    /\ pc = "transformed"
    /\ \/ /\ mongo_client' = "open"
          /\ log' = Append(log, <<"INFO", "mongo_connected">>)
          /\ pc' = "sink_connected"
          /\ UNCHANGED <<pending, error>>
       \/ /\ Raise("sink_connect", << <<"ERROR", "mongo_connect_error">> >>)
          /\ UNCHANGED mongo_client
    /\ UNCHANGED <<prog, source, run, pg_conn, pg_cursor, rows, data, sink,
                   sinkBefore, insertCalls, exit_code, history>>

(* Mutant: no guard for the empty batch; pymongo rejects an empty list. *)
load_empty_without_guard ==
    /\ prog = "main"
    /\ pc = "sink_connected"
    /\ data = <<>>
    /\ insertCalls' = insertCalls + 1
    /\ Raise("load", << <<"ERROR", "insert_error">> >>)
    /\ UNCHANGED <<prog, source, run, pg_conn, pg_cursor, mongo_client, rows, data, sink,
                   sinkBefore, exit_code, history>>

(* load_data_to_mongo, lines 166-168: if not records: log and return. *)
load_data_to_mongo_empty ==
    /\ prog = "main"
    /\ pc = "sink_connected"
    /\ data = <<>>
    /\ log' = Append(log, <<"INFO", "no_documents">>)
    /\ pc' = "loaded"
    /\ UNCHANGED <<prog, source, run, pg_conn, pg_cursor, mongo_client, rows, data, sink,
                   sinkBefore, insertCalls, pending, error, exit_code, history>>

(* Mutant: one insert call per record. *)
load_one_call_per_record ==
    /\ prog = "main"
    /\ pc = "sink_connected"
    /\ data # <<>>
    /\ sink' = InsertMany(sink, data, Len(data))
    /\ insertCalls' = insertCalls + Len(data)
    /\ log' = Append(log, <<"INFO", "inserted", Len(data)>>)
    /\ pc' = "loaded"
    /\ UNCHANGED <<prog, source, run, pg_conn, pg_cursor, mongo_client, rows, data,
                   sinkBefore, pending, error, exit_code, history>>

(* Mutant: the batch is upserted, documents the collection holds are skipped. *)
load_skips_existing ==
    /\ prog = "main"
    /\ pc = "sink_connected"
    /\ data # <<>>
    /\ sink' = InsertManyDedup(sink, data, Len(data))
    /\ insertCalls' = insertCalls + 1
    /\ log' = Append(log, <<"INFO", "inserted", Len(data)>>)
    /\ pc' = "loaded"
    /\ UNCHANGED <<prog, source, run, pg_conn, pg_cursor, mongo_client, rows, data,
                   sinkBefore, pending, error, exit_code, history>>

(* load_data_to_mongo, lines 170-172: insert_many accepts the whole batch; the *)
(* count logged is len(result.inserted_ids).                                   *)
load_data_to_mongo_ok ==
    /\ prog = "main"
    /\ pc = "sink_connected"
    /\ data # <<>>
    /\ sink' = InsertMany(sink, data, Len(data))
    /\ insertCalls' = insertCalls + 1
    /\ log' = Append(log, <<"INFO", "inserted", Len(sink') - Len(sink)>>)
    /\ pc' = "loaded"
    /\ UNCHANGED <<prog, source, run, pg_conn, pg_cursor, mongo_client, rows, data,
                   sinkBefore, pending, error, exit_code, history>>

(* load_data_to_mongo, lines 173-175: insert_many raises after committing the *)
(* first k documents; the error is logged and re-raised, no count is logged.  *)
load_data_to_mongo_fail ==
    /\ prog = "main"
    /\ pc = "sink_connected"
    /\ data # <<>>
    /\ \E k \in 0..(Len(data) - 1) : sink' = InsertMany(sink, data, k)
    /\ insertCalls' = insertCalls + 1
    /\ Raise("load", << <<"ERROR", "insert_error">> >>)
    /\ UNCHANGED <<prog, source, run, pg_conn, pg_cursor, mongo_client, rows, data,
                   sinkBefore, exit_code, history>>

(* Mutant: the clause catches psycopg2.Error only. *)
main_except_psycopg2_only ==
    /\ prog = "main"
    /\ pc = "raising"
    /\ pc' = "failed"
    /\ IF pending \in {"source_connect", "extract"}
       THEN pending' = "none" /\ log' = Append(log, <<"ERROR", "main_error">>)
       ELSE UNCHANGED <<pending, log>>
    /\ UNCHANGED <<prog, source, run, pg_conn, pg_cursor, mongo_client, rows, data, sink,
                   sinkBefore, insertCalls, error, exit_code, history>>

(* main, lines 191-192: except Exception as e: logger.error(...) *)
main_except ==
    /\ prog = "main"
    /\ pc = "raising"
    /\ pending' = "none"
    /\ log' = Append(log, <<"ERROR", "main_error">>)
    /\ pc' = "failed"
    /\ UNCHANGED <<prog, source, run, pg_conn, pg_cursor, mongo_client, rows, data, sink,
                   sinkBefore, insertCalls, error, exit_code, history>>

(* What the harness records when a run ends. *)
Summary ==
    [outcome |-> IF error = "none" THEN "LOADED" ELSE "FAILED",
     before |-> sinkBefore, after |-> Len(sink), sourceRows |-> Len(source)]

(* Mutant: the connections are closed at the end of the try body instead. *)
main_finally_only_on_success ==
    /\ prog = "main"
    /\ pc \in {"loaded", "failed"}
    /\ pg_conn' = IF pc = "loaded" /\ pg_conn = "open" THEN "closed" ELSE pg_conn
    /\ mongo_client' = IF pc = "loaded" /\ mongo_client = "open" THEN "closed" ELSE mongo_client
    /\ log' = log
    /\ exit_code' = IF pending = "none" THEN "0" ELSE "1"
    /\ history' = Append(history, Summary)
    /\ pc' = "closed"
    /\ UNCHANGED <<prog, source, run, pg_cursor, rows, data, sink, sinkBefore,
                   insertCalls, pending, error>>

(* main, lines 193-200: the finally block, then the process ends. *)
main_finally ==
    /\ prog = "main"
    /\ pc \in {"loaded", "failed"}
    /\ pg_conn' = IF pg_conn = "open" THEN "closed" ELSE pg_conn
    /\ mongo_client' = IF mongo_client = "open" THEN "closed" ELSE mongo_client
    /\ log' = log \o (IF pg_conn = "open" THEN << <<"INFO", "pg_closed">> >> ELSE <<>>)
                  \o (IF mongo_client = "open" THEN << <<"INFO", "mongo_closed">> >> ELSE <<>>)
    /\ exit_code' = IF pending = "none" THEN "0" ELSE "1"
    /\ history' = Append(history, Summary)
    /\ pc' = "closed"
    /\ UNCHANGED <<prog, source, run, pg_cursor, rows, data, sink, sinkBefore,
                   insertCalls, pending, error>>

(* The external caller invokes the program again: a new process, the same   *)
(* source, the collection as the previous run left it.                      *)
Reinvoke ==
    /\ pc = "closed"
    /\ run < MaxRuns
    /\ run' = run + 1
    /\ pc' = "init"
    /\ pg_conn' = "none"
    /\ pg_cursor' = "none"
    /\ mongo_client' = "none"
    /\ rows' = <<>>
    /\ data' = <<>>
    /\ sinkBefore' = Len(sink)
    /\ insertCalls' = 0
    /\ log' = <<>>
    /\ pending' = "none"
    /\ error' = "none"
    /\ exit_code' = "running"
    /\ UNCHANGED <<prog, source, sink, history>>

MainNext ==
    \/ get_postgres_connection
    \/ extract_data_from_postgres
    \/ extract_data_from_postgres_fail
    \/ main_transform
    \/ get_mongo_client
    \/ load_data_to_mongo_empty
    \/ load_data_to_mongo_ok
    \/ load_data_to_mongo_fail
    \/ main_except
    \/ main_finally

-----------------------------------------------------------------------------
(* scriptrans.py *)

(* Lines 35-36: psycopg2.connect, then pg_conn.cursor(). *)
script_connect_postgres ==
    /\ prog = "scriptrans"
    /\ pc = "init"
    /\ \/ /\ pg_conn' = "open"
          /\ pg_cursor' = "open"
          /\ pc' = "source_connected"
          /\ UNCHANGED <<log, pending, error>>
       \/ /\ Raise("source_connect", <<>>)
          /\ UNCHANGED <<pg_conn, pg_cursor>>
       \/ /\ pg_conn' = "open"
          /\ Raise("source_connect", <<>>)
          /\ UNCHANGED pg_cursor
    /\ UNCHANGED <<prog, source, run, mongo_client, rows, data, sink,
                   sinkBefore, insertCalls, exit_code, history>>

(* Lines 39-41: MongoClient(mongo_uri) and the collection handle. *)
script_connect_mongo ==
    /\ prog = "scriptrans"
    /\ pc = "source_connected"
    /\ \/ /\ mongo_client' = "open"
          /\ pc' = "sink_connected"
          /\ UNCHANGED <<log, pending, error>>
       \/ /\ Raise("sink_connect", <<>>)
          /\ UNCHANGED mongo_client
    /\ UNCHANGED <<prog, source, run, pg_conn, pg_cursor, rows, data, sink,
                   sinkBefore, insertCalls, exit_code, history>>

(* Lines 83-85: execute, fetchall, column names. *)
script_execute ==
    /\ prog = "scriptrans"
    /\ pc = "sink_connected"
    /\ \/ /\ rows' = source
          /\ pc' = "extracted"
          /\ UNCHANGED <<log, pending, error>>
       \/ /\ Raise("extract", <<>>)
          /\ UNCHANGED rows
    /\ UNCHANGED <<prog, source, run, pg_conn, pg_cursor, mongo_client, data, sink,
                   sinkBefore, insertCalls, exit_code, history>>

(* Lines 88-95: each row becomes a document whose date values are converted. *)
(* A failure of the runtime inside the loop leaves the first k documents.    *)
script_prepare_documents ==
    /\ prog = "scriptrans"
    /\ pc = "extracted"
    /\ \/ /\ data' = [i \in 1..Len(rows) |-> TransformRecord(DictZip(colnames, rows[i]))]
          /\ pc' = "transformed"
          /\ UNCHANGED <<log, pending, error>>
       \/ /\ \E k \in 0..Len(rows) :
                data' = [i \in 1..k |-> TransformRecord(DictZip(colnames, rows[i]))]
          /\ Raise("transform", <<>>)
    /\ UNCHANGED <<prog, source, run, pg_conn, pg_cursor, mongo_client, rows, sink,
                   sinkBefore, insertCalls, exit_code, history>>

(* Lines 97-99: if documents: insert_many, then print the count. *)
script_insert ==
    /\ prog = "scriptrans"
    /\ pc = "transformed"
    /\ \/ /\ data = <<>>
          /\ pc' = "loaded"
          /\ UNCHANGED <<sink, insertCalls, log, pending, error>>
       \/ /\ data # <<>>
          /\ sink' = InsertMany(sink, data, Len(data))
          /\ insertCalls' = insertCalls + 1
          /\ log' = Append(log, <<"PRINT", "inserted", Len(data)>>)
          /\ pc' = "loaded"
          /\ UNCHANGED <<pending, error>>
       \/ /\ data # <<>>
          /\ \E k \in 0..(Len(data) - 1) : sink' = InsertMany(sink, data, k)
          /\ insertCalls' = insertCalls + 1
          /\ Raise("load", <<>>)
    /\ UNCHANGED <<prog, source, run, pg_conn, pg_cursor, mongo_client, rows, data,
                   sinkBefore, exit_code, history>>

(* Lines 101-102: except Exception as e: print("Error occurred:", e) *)
script_except ==
    /\ prog = "scriptrans"
    /\ pc = "raising"
    /\ pending' = "none"
    /\ log' = Append(log, <<"PRINT", "error_occurred">>)
    /\ pc' = "failed"
    /\ UNCHANGED <<prog, source, run, pg_conn, pg_cursor, mongo_client, rows, data, sink,
                   sinkBefore, insertCalls, error, exit_code, history>>

(* Lines 104-110: the finally block, then the process ends. *)
script_finally ==
    /\ prog = "scriptrans"
    /\ pc \in {"loaded", "failed"}
    /\ pg_cursor' = IF pg_cursor = "open" THEN "closed" ELSE pg_cursor
    /\ pg_conn' = IF pg_conn = "open" THEN "closed" ELSE pg_conn
    /\ mongo_client' = IF mongo_client = "open" THEN "closed" ELSE mongo_client
    /\ exit_code' = IF pending = "none" THEN "0" ELSE "1"
    /\ history' = Append(history, Summary)
    /\ pc' = "closed"
    /\ UNCHANGED <<prog, source, run, rows, data, sink, sinkBefore,
                   insertCalls, log, pending, error>>

ScriptNext ==
    \/ script_connect_postgres
    \/ script_connect_mongo
    \/ script_execute
    \/ script_prepare_documents
    \/ script_insert
    \/ script_except
    \/ script_finally

Next == MainNext \/ ScriptNext \/ Reinvoke

Spec == Init /\ [][Next]_vars

-----------------------------------------------------------------------------
(* Properties *)

TypeClosed(record) == \A k \in DOMAIN record : record[k].t \in {"text", "int", "bool", "null"}

Committed == Len(sink) - sinkBefore

ErrorLogged == Logged("main_error") \/ Logged("error_occurred")

(* Position of the orchestrator on a scale on which both programs advance;  *)
(* half of it is the stage of the orchestrator's state machine:             *)
(* 0 INIT, 1 SOURCE_CONNECTED, 2 EXTRACTED, 3 TRANSFORMED, 4 LOADED,        *)
(* 5 FAILED, 6 CLOSED. Connecting the sink is no stage of its own.          *)
Position ==
    CASE pc = "init" -> 0
      [] pc = "source_connected" -> 2
      [] pc = "sink_connected" -> IF prog = "main" THEN 7 ELSE 3
      [] pc = "extracted" -> 4
      [] pc = "transformed" -> 6
      [] pc = "loaded" -> 8
      [] pc = "raising" -> 10
      [] pc = "failed" -> 11
      [] pc = "closed" -> 12

Stage == Position \div 2

StageStep(a, b) ==
    CASE a < 4 -> b \in {a, a + 1, 5}
      [] a = 4 -> b = 6
      [] a = 5 -> b \in {5, 6}
      [] OTHER -> FALSE

(* C1: when the run has ended, whichever stage raised, neither connector   *)
(* (nor the scriptrans cursor) is still open.                              *)
C1_ConnectionsClosed ==
    pc = "closed" => pg_conn # "open" /\ pg_cursor # "open" /\ mongo_client # "open"

C1_Witness ==
    /\ pc = "closed"
    /\ error = "load"
    /\ pg_conn = "closed"
    /\ mongo_client = "closed"

(* C2: within one run the orchestrator only moves forward through INIT,     *)
(* SOURCE_CONNECTED, EXTRACTED, TRANSFORMED, LOADED, CLOSED, one stage at a *)
(* time and never back or twice through the same position; from FAILED it   *)
(* only reaches CLOSED, and after a failure nothing is extracted,           *)
(* transformed or loaded any more.                                          *)
C2_StageOrder ==
    [][run' = run =>
         /\ Position' > Position
         /\ StageStep(Stage, Stage')
         /\ error # "none" =>
               /\ Stage' \in {5, 6}
               /\ UNCHANGED <<rows, data, sink, insertCalls>>]_vars

C2_Witness ==
    /\ pc = "closed"
    /\ error = "transform"
    /\ run = 2
    /\ history[1].outcome = "LOADED"

(* C3: a run whose extraction query failed issues no insert call and adds   *)
(* no document to the sink.                                                 *)
C3_NoInsertAfterExtractFailure ==
    error = "extract" => insertCalls = 0 /\ Committed = 0

C3_Witness ==
    /\ pc = "closed"
    /\ error = "extract"
    /\ Len(source) = 2
    /\ insertCalls = 0

(* C4: once the transformation has returned, no field of any record is a    *)
(* date or a datetime, and so it is for every record given to insert_many   *)
(* and every document the runs add to the sink.                             *)
C4_NoNativeDates ==
    /\ (pc \in {"transformed", "loaded"} \/ (prog = "main" /\ pc = "sink_connected")
            \/ insertCalls > 0)
          => \A i \in 1..Len(data) : TypeClosed(data[i])
    /\ \A j \in 1..Len(sink) : TypeClosed(sink[j])

C4_Witness ==
    /\ pc = "loaded"
    /\ insertCalls = 1
    /\ Len(source) = 2
    /\ source[1][3] = DateV(2024, 3, 1)
    /\ source[2][5].t = "datetime"
    /\ data[1]["arrival_date"] = TextV("2024-03-01")
    /\ data[2]["cancelled_date"] = TextV("2024-03-02T09:05:07.001500")
    /\ data[1]["booking_date"] = TextV("2024-02-09T18:30:00")

(* C5: the transformation keeps the number of records, their order and each *)
(* record's field set; a value that is no date or datetime (null included)  *)
(* is unchanged, and a date or datetime becomes the text of that very value.*)
C5_TransformFrame ==
    pc = "transformed" =>
        /\ Len(data) = Len(source)
        /\ \A i \in 1..Len(data) :
              /\ DOMAIN data[i] = {colnames[c] : c \in 1..Len(colnames)}
              /\ \A c \in 1..Len(colnames) :
                    IF source[i][c].t \in {"date", "datetime"}
                    THEN data[i][colnames[c]] = TextV(isoformat(source[i][c]))
                    ELSE data[i][colnames[c]] = source[i][c]

C5_Witness ==
    /\ pc = "transformed"
    /\ Len(source) = 2
    /\ source[1] # source[2]
    /\ source[1][5] = Null
    /\ data[1]["cancelled_date"] = Null
    /\ data[1]["reservation_id"] = IntV(1)
    /\ data[2]["arrival_date"].t = "text"

C7_BulkInsert ==
    (pc = "loaded" /\ data # <<>>) =>
        /\ insertCalls = 1
        /\ HasReport(Len(data))
        /\ Len(sink) = sinkBefore + Len(data)
        /\ SubSeq(sink, sinkBefore + 1, Len(sink)) = data

C7_Witness ==
    /\ pc = "loaded"
    /\ Len(data) = 2
    /\ sinkBefore > 0
    /\ HasReport(2)

(* C8: when the sink rejects a document of a non-empty batch, the loader    *)
(* reports a count equal to the number of documents the sink committed.     *)
C8_ReportedEqualsCommitted ==
    (error = "load" /\ pc \in {"failed", "closed"}) => HasReport(Committed)

(* C9: two successful runs over the same source of n rows, the first of     *)
(* them starting on an empty collection, leave 2 * n documents in it: the   *)
(* batch once more after the batch.                                         *)
C9_SecondRunAppends ==
    (/\ run = 2
     /\ pc = "closed"
     /\ error = "none"
     /\ history[1].outcome = "LOADED"
     /\ history[1].before = 0) =>
        /\ Len(sink) = 2 * Len(source)
        /\ SubSeq(sink, 1, Len(source)) = SubSeq(sink, Len(source) + 1, Len(sink))

C9_Witness ==
    /\ run = 2
    /\ pc = "closed"
    /\ error = "none"
    /\ history[1].outcome = "LOADED"
    /\ history[1].before = 0
    /\ Len(source) = 2
    /\ Len(sink) = 4

(* C10: a run ends normally, with exit status 0, whether it loaded or       *)
(* failed: the error of whichever stage raised was caught and logged by     *)
(* the orchestrator before the cleanup, and none is left propagating.       *)
C10_ErrorsCaught ==
    /\ pc = "closed" => exit_code = "0"
    /\ pc \in {"failed", "closed"} => pending = "none"
    /\ (pc \in {"failed", "closed"} /\ error # "none") => ErrorLogged

C10_Witness ==
    /\ pc = "closed"
    /\ error = "sink_connect"
    /\ exit_code = "0"
    /\ ErrorLogged

=============================================================================
